---- MODULE Spec2Model ----
(***************************************************************************)
(* Model of releasy.py: the version bump (_bump_ver), the derivation of    *)
(* the bump options and the interactive choice (prompt_bump_version), and  *)
(* the release flow (main) with its file rewrites, commit and tag.         *)
(*                                                                         *)
(* A string is a sequence of tokens (a number, or a symbol such as ".",    *)
(* "rc", "post", "v"), so that str(version) and Version(string) are real   *)
(* conversions.  A Version object is represented by its _version tuple.    *)
(***************************************************************************)
EXTENDS Integers, Sequences, FiniteSets, TLC

VARIABLES
    \* a direct call of _bump_ver or prompt_bump_version
    in_ver,         \* the version passed in
    in_level,       \* the level passed to _bump_ver ("" before the call)
    option_idx,     \* what the selection prompt returned (None, or <<i>>)
    shown,          \* the labels handed to the selection prompt
    ret,            \* the call's outcome: a version or the exception raised
    at,             \* "input", "bumped", "select" or "prompted"
    \* a repository and the runs of main on it
    tags,           \* the tag names, oldest first; git describe gives the last
    commits,        \* the release commits: message and files
    version_file,   \* the string inside __version__ = "..."
    changelog,      \* the entries of CHANGES.rst, newest first
    stale,          \* files whose copyright header predates this year
    pc,             \* where main is
    new_tag,        \* main's new_tag
    old_tag,        \* main's old_tag
    new_ver,        \* main's new_ver
    options,        \* prompt_bump_version's options, in insertion order
    changed_files,  \* main's changed_files
    index,          \* the files staged by repo.index.add
    error,          \* the exception that ended the run, "" if none
    prompted,       \* the run took the new_tag is None branch
    before,         \* the repository as the run found it
    runs            \* runs of main started so far

bump_vars == <<in_ver, in_level, option_idx, shown, ret, at>>
main_vars == <<tags, commits, version_file, changelog, stale, pc, new_tag, old_tag,
               new_ver, options, changed_files, index, error, prompted, before, runs>>
vars == <<bump_vars, main_vars>>

\* ------------------------------------------------------------------ bounds
\* Longest release tuple of an input version.
MaxLen == 3
\* Largest release component of an input version.
MaxNum == 1
\* Largest pre/dev/post counter of an input version.
MaxQual == 1
\* Number of runs of main in one behaviour.
MaxRuns == 2

\* ------------------------------------------------------- versions, strings
None == <<>>

PreLabels == {"a", "b", "rc"}

Num(n) == [k |-> "num", s |-> "", n |-> n]
Sym(s) == [k |-> "sym", s |-> s, n |-> 0]

\* The _Version named tuple held in Version._version.
VersionTuple(epoch, release, dev, pre, post, local) ==
    [epoch |-> epoch, release |-> release, dev |-> dev, pre |-> pre,
     post |-> post, local |-> local]

NoVersion == VersionTuple(0, <<>>, None, None, None, None)

Raised(e) == [err |-> e, ver |-> NoVersion]
Returned(v) == [err |-> "none", ver |-> v]

RECURSIVE Join(_)
\* ".".join(str(x) for x in release)
Join(release) ==
    IF Len(release) = 0 THEN <<>>
    ELSE IF Len(release) = 1 THEN <<Num(release[1])>>
    ELSE <<Num(release[1]), Sym(".")>> \o Join(Tail(release))

\* str(version): [N!]N(.N)*[{a|b|rc}N][.postN][.devN][+local]
VerStr(v) ==
    (IF v.epoch # 0 THEN <<Num(v.epoch), Sym("!")>> ELSE <<>>)
    \o Join(v.release)
    \o (IF v.pre # None THEN <<Sym(v.pre[1]), Num(v.pre[2])>> ELSE <<>>)
    \o (IF v.post # None THEN <<Sym("."), Sym("post"), Num(v.post[2])>> ELSE <<>>)
    \o (IF v.dev # None THEN <<Sym("."), Sym("dev"), Num(v.dev[2])>> ELSE <<>>)
    \o (IF v.local # None THEN <<Sym("+"), Sym(v.local[1])>> ELSE <<>>)

RECURSIVE RelEnd(_, _)
\* Index of the last number of the release segment that starts at s[p].
RelEnd(s, p) ==
    IF p + 2 <= Len(s) /\ s[p + 1] = Sym(".") /\ s[p + 2].k = "num"
    THEN RelEnd(s, p + 2)
    ELSE p

IsNumAt(s, p) == p <= Len(s) /\ s[p].k = "num"
IsSymAt(s, p, x) == p <= Len(s) /\ s[p] = Sym(x)

\* Version(string) is a scan of the canonical form, left to right, with an
\* optional leading "v": each step reads one optional segment at position p
\* into the tuple v and hands over to the next; anything left over at the end
\* raises InvalidVersion.
ParseEnd(s, p, v) ==
    IF p = Len(s) + 1 THEN Returned(v) ELSE Raised("InvalidVersion")

ParseLocal(s, p, v) ==
    IF IsSymAt(s, p, "+") /\ p + 1 <= Len(s) /\ s[p + 1].k = "sym"
    THEN ParseEnd(s, p + 2, [v EXCEPT !.local = <<s[p + 1].s>>])
    ELSE ParseEnd(s, p, v)

ParseDev(s, p, v) ==
    IF IsSymAt(s, p, ".") /\ IsSymAt(s, p + 1, "dev") /\ IsNumAt(s, p + 2)
    THEN ParseLocal(s, p + 3, [v EXCEPT !.dev = <<"dev", s[p + 2].n>>])
    ELSE ParseLocal(s, p, v)

ParsePost(s, p, v) ==
    IF IsSymAt(s, p, ".") /\ IsSymAt(s, p + 1, "post") /\ IsNumAt(s, p + 2)
    THEN ParseDev(s, p + 3, [v EXCEPT !.post = <<"post", s[p + 2].n>>])
    ELSE ParseDev(s, p, v)

ParsePre(s, p, v) ==
    IF p <= Len(s) /\ s[p].k = "sym" /\ s[p].s \in PreLabels
    THEN IF IsNumAt(s, p + 1)
         THEN ParsePost(s, p + 2, [v EXCEPT !.pre = <<s[p].s, s[p + 1].n>>])
         ELSE ParsePost(s, p + 1, [v EXCEPT !.pre = <<s[p].s, 0>>])
    ELSE ParsePost(s, p, v)

ParseRelease(s, p, v) ==
    IF ~IsNumAt(s, p) THEN Raised("InvalidVersion")
    ELSE ParsePre(s, RelEnd(s, p) + 1,
                  [v EXCEPT !.release =
                      [i \in 1..((RelEnd(s, p) - p) \div 2 + 1) |-> s[p + 2 * (i - 1)].n]])

ParseEpoch(s, p, v) ==
    IF IsNumAt(s, p) /\ IsSymAt(s, p + 1, "!")
    THEN ParseRelease(s, p + 2, [v EXCEPT !.epoch = s[p].n])
    ELSE ParseRelease(s, p, v)

ParseVersion(s) ==
    IF IsSymAt(s, 1, "v") THEN ParseEpoch(s, 2, NoVersion)
    ELSE ParseEpoch(s, 1, NoVersion)

\* ---------------------------------------------------------------- ordering
RECURSIVE Strip(_)
\* The release without its trailing zeros.
Strip(release) ==
    IF Len(release) > 0 /\ release[Len(release)] = 0
    THEN Strip(SubSeq(release, 1, Len(release) - 1))
    ELSE release

RECURSIVE TupleLess(_, _)
\* Python's tuple comparison of two tuples of integers.
TupleLess(a, b) ==
    IF Len(b) = 0 THEN FALSE
    ELSE IF Len(a) = 0 THEN TRUE
    ELSE IF a[1] # b[1] THEN a[1] < b[1]
    ELSE TupleLess(Tail(a), Tail(b))

LabelRank(l) == CASE l = "a" -> 1 [] l = "b" -> 2 [] l = "rc" -> 3

\* The qualifier part of the comparison key, with -Infinity and Infinity
\* encoded as ranks around the real values.
QualKey(v) ==
    LET pre == IF v.pre = None /\ v.post = None /\ v.dev # None THEN <<0, 0>>
               ELSE IF v.pre = None THEN <<4, 0>>
               ELSE <<LabelRank(v.pre[1]), v.pre[2]>>
        post == IF v.post = None THEN <<0, 0>> ELSE <<1, v.post[2]>>
        dev == IF v.dev = None THEN <<1, 0>> ELSE <<0, v.dev[2]>>
        local == IF v.local = None THEN <<0>> ELSE <<1>>
    IN  pre \o post \o dev \o local

\* a < b under the version ordering.
VersionLess(a, b) ==
    IF a.epoch # b.epoch THEN a.epoch < b.epoch
    ELSE IF Strip(a.release) # Strip(b.release)
         THEN TupleLess(Strip(a.release), Strip(b.release))
    ELSE TupleLess(QualKey(a), QualKey(b))

is_prerelease(v) == v.dev # None \/ v.pre # None
is_devrelease(v) == v.dev # None
is_postrelease(v) == v.post # None

\* ------------------------------------------------------------------- bump
VersionLevels == {"major", "minor", "patch", "pre", "dev", "post"}

\* BumpRelease with the minor branch leaving the patch component as it was.
BumpReleaseKeepPatch(release, level) ==
    IF level = "major" THEN <<release[1] + 1, 0, 0>>
    ELSE IF level = "minor"
         THEN IF Len(release) < 3 THEN <<>>
              ELSE <<release[1], release[2] + 1, release[3]>>
    ELSE IF level = "patch"
         THEN IF Len(release) < 3 THEN <<>>
              ELSE <<release[1], release[2], release[3] + 1>>
    ELSE release

\* The release tuple after the major/minor/patch branch; <<>> stands for the
\* IndexError of release[1] or release[2] on a shorter tuple.
BumpRelease(release, level) ==
    IF level = "major" THEN <<release[1] + 1, 0, 0>>
    ELSE IF level = "minor"
         THEN IF Len(release) < 2 THEN <<>> ELSE <<release[1], release[2] + 1, 0>>
    ELSE IF level = "patch"
         THEN IF Len(release) < 3 THEN <<>>
              ELSE <<release[1], release[2], release[3] + 1>>
    ELSE release

\* BumpQualifier writing the level's name in place of the qualifier's label.
BumpQualifierByName(q, level, name) ==
    IF level = name /\ q # None THEN <<name, q[2] + 1>> ELSE q

\* A qualifier with its counter incremented, when it is the one asked for and
\* it is present; unchanged otherwise.
BumpQualifier(q, level, name) ==
    IF level = name /\ q # None THEN <<q[1], q[2] + 1>> ELSE q

_bump_ver(ver, level) ==
    LET version_tuple == ver
        isRel == level \in {"major", "minor", "patch"}
        release == IF isRel THEN BumpRelease(version_tuple.release, level)
                   ELSE version_tuple.release
        dev0 == IF isRel THEN None ELSE version_tuple.dev
        pre0 == IF isRel THEN None ELSE version_tuple.pre
        post0 == IF isRel THEN None ELSE version_tuple.post
        pre == BumpQualifier(pre0, level, "pre")
        dev == BumpQualifier(dev0, level, "dev")
        post == BumpQualifier(post0, level, "post")
    IN  IF release = <<>> THEN Raised("IndexError")
        ELSE
        LET new_ver_tuple == [version_tuple EXCEPT !.release = release, !.dev = dev,
                                                   !.pre = pre, !.post = post]
            new_ver_obj == ParseVersion(VerStr(ver))
        IN  IF new_ver_obj.err # "none" THEN new_ver_obj
            ELSE ParseVersion(VerStr(new_ver_tuple))

\* ------------------------------------------------------------ bump options
\* One entry of the options dict.
Option(v, lvl) == [level |-> lvl, ret |-> _bump_ver(v, lvl)]

\* The options dict of prompt_bump_version as its items in insertion order.
BumpOptions(v) ==
    <<Option(v, "major"), Option(v, "minor"), Option(v, "patch")>>
    \o (IF is_prerelease(v) THEN <<Option(v, "pre")>> ELSE <<>>)
    \o (IF is_devrelease(v) THEN <<Option(v, "dev")>> ELSE <<>>)
    \o (IF is_postrelease(v) THEN <<Option(v, "post")>> ELSE <<>>)

\* The exception raised while the dict is built, "none" if there is none.
OptionsError(opts) ==
    IF \E i \in DOMAIN opts : opts[i].ret.err # "none"
    THEN opts[CHOOSE i \in DOMAIN opts :
                /\ opts[i].ret.err # "none"
                /\ \A j \in 1..(i - 1) : opts[j].ret.err = "none"].ret.err
    ELSE "none"

\* f"{bumped_ver} ({level})" for every item of the dict.
OptionLabels(opts) ==
    [i \in DOMAIN opts |->
        VerStr(opts[i].ret.ver) \o <<Sym(" ("), Sym(opts[i].level), Sym(")")>>]

\* SelectedOption with the index counted from the end of the key list.
SelectedOptionFromEnd(opts, idx) ==
    LET keys == [i \in DOMAIN opts |-> opts[i].level]
        key == keys[Len(keys) - idx]
    IN  opts[CHOOSE i \in DOMAIN opts : opts[i].level = key].ret.ver

\* options[list(options.keys())[option_idx]], option_idx zero-based.
SelectedOption(opts, idx) ==
    LET keys == [i \in DOMAIN opts |-> opts[i].level]
        key == keys[idx + 1]
    IN  opts[CHOOSE i \in DOMAIN opts : opts[i].level = key].ret.ver

\* PromptResult without the assert: no answer is read as the first option.
PromptResultNoAssert(opts, answer) ==
    IF OptionsError(opts) # "none" THEN Raised(OptionsError(opts))
    ELSE IF answer = None THEN Returned(opts[1].ret.ver)
    ELSE Returned(opts[answer[1] + 1].ret.ver)

\* prompt_bump_version once the options are built and the prompt has
\* answered: the exception out of the dict's construction if there was one,
\* the assert on the answer, and the lookup of the chosen option.
PromptResult(opts, answer) ==
    IF OptionsError(opts) # "none" THEN Raised(OptionsError(opts))
    ELSE IF answer = None THEN Raised("AssertionError")
    ELSE Returned(SelectedOption(opts, answer[1]))

\* What the selection prompt can answer when shown n labels.
Answers(n) == {None} \cup {<<i>> : i \in 0..(n - 1)}

\* ------------------------------------------------- direct calls (SpecBump)
Releases == UNION {[1..n -> 0..MaxNum] : n \in 1..MaxLen}
Qualifiers(names) == {None} \cup (names \X (0..MaxQual))

\* The fields _bump_ver carries over untouched: the epoch and the local
\* segment, both absent or both present.
Carried == {<<0, None>>, <<1, <<"l">>>>}

\* The versions a call is made with.
Versions ==
    {VersionTuple(c[1], release, dev, pre, post, c[2]) :
        c \in Carried, release \in Releases, dev \in Qualifiers({"dev"}),
        pre \in Qualifiers(PreLabels), post \in Qualifiers({"post"})}

\* The levels a call is made with: the six of VersionLevels and one that is
\* none of them.
LevelInputs == VersionLevels \cup {"epoch"}

IdleRepo ==
    /\ tags = <<>> /\ commits = <<>> /\ version_file = <<>> /\ changelog = <<>>
    /\ stale = {} /\ pc = "idle" /\ new_tag = None /\ old_tag = None
    /\ new_ver = NoVersion /\ options = <<>> /\ changed_files = {} /\ index = {}
    /\ error = "" /\ prompted = FALSE /\ before = <<>> /\ runs = 0

InitBump ==
    /\ in_ver \in Versions
    /\ in_level = "" /\ option_idx = None /\ shown = <<>>
    /\ ret = Raised("") /\ at = "input"
    /\ IdleRepo

CallBumpVer ==
    /\ at = "input"
    /\ \E l \in LevelInputs :
         /\ in_level' = l
         /\ ret' = _bump_ver(in_ver, l)
    /\ at' = "bumped"
    /\ UNCHANGED <<in_ver, option_idx, shown, main_vars>>

\* prompt_bump_version up to the selection prompt: the options and their
\* labels.
CallPrompt ==
    /\ at = "input"
    /\ \E opts \in {BumpOptions(in_ver)} :
         /\ options' = opts
         /\ IF OptionsError(opts) # "none"
            THEN /\ ret' = PromptResult(opts, None)
                 /\ at' = "prompted"
                 /\ UNCHANGED shown
            ELSE /\ shown' = OptionLabels(opts)
                 /\ at' = "select"
                 /\ UNCHANGED ret
    /\ UNCHANGED <<in_ver, in_level, option_idx, tags, commits, version_file,
                   changelog, stale, pc, new_tag, old_tag, new_ver, changed_files,
                   index, error, prompted, before, runs>>

\* The selection prompt answers, and prompt_bump_version returns.
AnswerPrompt ==
    /\ at = "select"
    /\ \E answer \in Answers(Len(options)) :
         /\ option_idx' = answer
         /\ ret' = PromptResult(options, answer)
    /\ at' = "prompted"
    /\ UNCHANGED <<in_ver, in_level, shown, main_vars>>

NextBump == CallBumpVer \/ CallPrompt \/ AnswerPrompt

SpecBump == InitBump /\ [][NextBump]_vars

\* ------------------------------------------------------ release flow (Spec)
Range(f) == {f[i] : i \in DOMAIN f}

Dot == Sym(".")

\* The latest tag of the repositories main is run on:
\* v1.0.0, 0.9.0.dev3, v0.9.0.dev3, v2.0.0rc1, v1.4, v1.0.0.post1.
InitTagNames ==
    { <<Sym("v"), Num(1), Dot, Num(0), Dot, Num(0)>>,
      <<Num(0), Dot, Num(9), Dot, Num(0), Dot, Sym("dev"), Num(3)>>,
      <<Sym("v"), Num(0), Dot, Num(9), Dot, Num(0), Dot, Sym("dev"), Num(3)>>,
      <<Sym("v"), Num(2), Dot, Num(0), Dot, Num(0), Sym("rc"), Num(1)>>,
      <<Sym("v"), Num(1), Dot, Num(4)>>,
      <<Sym("v"), Num(1), Dot, Num(0), Dot, Num(0), Dot, Sym("post"), Num(1)>> }

\* The new_tag arguments main is run with: v2.0.0, 0.5.0, v1.0.0rc1, a name
\* that is no version, and the tags that exist.
NewTagArgs ==
    { <<Sym("v"), Num(2), Dot, Num(0), Dot, Num(0)>>,
      <<Num(0), Dot, Num(5), Dot, Num(0)>>,
      <<Sym("v"), Num(1), Dot, Num(0), Dot, Num(0), Sym("rc"), Num(1)>>,
      <<Sym("v"), Sym("next")>> } \cup Range(tags)

\* Files with a copyright header.
HeaderFiles == {"mod.py"}

\* The state of the repository that a run can change.
Repository ==
    [tags |-> tags, commits |-> commits, version_file |-> version_file,
     changelog |-> changelog, stale |-> stale]

\* old_ver of main.
old_ver == ParseVersion(old_tag).ver

NoCall ==
    /\ in_ver = NoVersion /\ in_level = "" /\ ret = Raised("") /\ at = "idle"

Init ==
    /\ NoCall /\ option_idx = None /\ shown = <<>>
    /\ tags \in {<<>>} \cup {<<t>> : t \in InitTagNames}
    /\ commits = <<>>
    /\ version_file = (IF tags = <<>> THEN <<>> ELSE VerStr(ParseVersion(tags[1]).ver))
    /\ changelog = <<>>
    /\ stale \in SUBSET HeaderFiles
    /\ pc = "idle" /\ new_tag = None /\ old_tag = None /\ new_ver = NoVersion
    /\ options = <<>> /\ changed_files = {} /\ index = {} /\ error = ""
    /\ prompted = FALSE /\ before = <<>> /\ runs = 0

\* main up to the selection prompt: git describe, Version(old_tag), and then
\* either Version(new_tag) or the options of prompt_bump_version.
MainStart ==
    /\ pc \in {"idle", "done", "failed"}
    /\ runs < MaxRuns
    /\ runs' = runs + 1
    /\ before' = Repository
    /\ changed_files' = {} /\ option_idx' = None
    /\ \E arg \in {None} \cup NewTagArgs :
         /\ prompted' = (arg = None)
         /\ IF tags = <<>>
            THEN /\ pc' = "failed" /\ error' = "GitCommandError"
                 /\ old_tag' = None /\ new_tag' = arg /\ new_ver' = NoVersion
                 /\ options' = <<>> /\ shown' = <<>>
            ELSE /\ old_tag' = tags[Len(tags)]
                 /\ IF arg = None
                    THEN \E opts \in {BumpOptions(ParseVersion(tags[Len(tags)]).ver)} :
                           /\ options' = opts
                           /\ new_tag' = None /\ new_ver' = NoVersion
                           /\ IF OptionsError(opts) # "none"
                              THEN /\ pc' = "failed" /\ error' = OptionsError(opts)
                                   /\ shown' = <<>>
                              ELSE /\ pc' = "select" /\ error' = ""
                                   /\ shown' = OptionLabels(opts)
                    ELSE /\ options' = <<>> /\ shown' = <<>>
                         /\ new_tag' = arg
                         /\ IF ParseVersion(arg).err # "none"
                            THEN /\ pc' = "failed" /\ error' = ParseVersion(arg).err
                                 /\ new_ver' = NoVersion
                            ELSE /\ pc' = "rewrite" /\ error' = ""
                                 /\ new_ver' = ParseVersion(arg).ver
    /\ UNCHANGED <<in_ver, in_level, ret, at, tags, commits, version_file, changelog,
                   stale, index>>

\* The selection prompt answers; the rest of prompt_bump_version and
\* new_tag = f"v{new_ver}".
Select ==
    /\ pc = "select"
    /\ \E answer \in Answers(Len(options)) :
         /\ option_idx' = answer
         /\ \E r \in {PromptResult(options, answer)} :
              IF r.err # "none"
              THEN /\ pc' = "failed" /\ error' = r.err
                   /\ UNCHANGED <<new_ver, new_tag>>
              ELSE /\ pc' = "rewrite" /\ error' = ""
                   /\ new_ver' = r.ver
                   /\ new_tag' = <<Sym("v")>> \o VerStr(r.ver)
    /\ UNCHANGED <<in_ver, in_level, ret, at, shown, tags, commits, version_file,
                   changelog, stale, old_tag, options, changed_files, index, prompted,
                   before, runs>>

\* rewrite_package_version, rewrite_headers, update_changelog and the editor.
\* matched is the number of files git grep finds, diff the files changed
\* since old_tag.
RewriteFiles ==
    /\ pc = "rewrite"
    /\ \E matched \in 0..2, diff \in SUBSET HeaderFiles :
         IF matched # 1
         THEN /\ pc' = "failed" /\ error' = "RuntimeError"
              /\ UNCHANGED <<version_file, stale, changelog, changed_files>>
         ELSE /\ version_file' = VerStr(new_ver)
              /\ stale' = stale \ diff
              /\ changelog' = <<<<Sym("v")>> \o VerStr(new_ver)>> \o changelog
              /\ changed_files' = {"version.py"} \cup (stale \cap diff) \cup {"CHANGES.rst"}
              /\ pc' = "add" /\ error' = ""
    /\ UNCHANGED <<bump_vars, tags, commits, new_tag, old_tag, new_ver, options, index,
                   prompted, before, runs>>

\* repo.index.add(list(changed_files))
IndexAdd ==
    /\ pc = "add"
    /\ index' = index \cup changed_files
    /\ pc' = "commit"
    /\ UNCHANGED <<bump_vars, tags, commits, version_file, changelog, stale, new_tag,
                   old_tag, new_ver, options, changed_files, error, prompted, before,
                   runs>>

\* repo.index.commit(f"release: {new_tag}")
Commit ==
    /\ pc = "commit"
    /\ commits' = Append(commits, [message |-> new_tag, files |-> index])
    /\ index' = {}
    /\ pc' = "tag"
    /\ UNCHANGED <<bump_vars, tags, version_file, changelog, stale, new_tag, old_tag,
                   new_ver, options, changed_files, error, prompted, before, runs>>

\* repo.create_tag(new_tag, ...): git refuses a name that exists.
CreateTag ==
    /\ pc = "tag"
    /\ IF new_tag \in Range(tags)
       THEN /\ pc' = "failed" /\ error' = "GitCommandError"
            /\ UNCHANGED tags
       ELSE /\ tags' = Append(tags, new_tag)
            /\ pc' = "done"
            /\ UNCHANGED error
    /\ UNCHANGED <<bump_vars, commits, version_file, changelog, stale, new_tag, old_tag,
                   new_ver, options, changed_files, index, prompted, before, runs>>

Next == MainStart \/ Select \/ RewriteFiles \/ IndexAdd \/ Commit \/ CreateTag

Spec == Init /\ [][Next]_vars

\* ------------------------------------------------------------- properties
QualifierLevels == {"pre", "dev", "post"}

\* The qualifier of v that a qualifier level names.
Qualifier(v, l) == CASE l = "pre" -> v.pre [] l = "dev" -> v.dev [] l = "post" -> v.post

NoQualifiers(v) == v.pre = None /\ v.dev = None /\ v.post = None

\* The level and the version string of a label "<version> (<level>)".
LabelLevel(label) == label[Len(label) - 1].s
LabelVersion(label) == SubSeq(label, 1, Len(label) - 3)

\* The levels of the labels shown by the prompt.
ShownLevels == {LabelLevel(shown[i]) : i \in DOMAIN shown}

PresentationOrder == <<"major", "minor", "patch", "pre", "dev", "post">>
PresentationRank(l) == CHOOSE i \in DOMAIN PresentationOrder : PresentationOrder[i] = l

\* C1: for every version and every level in {major, minor, patch}, _bump_ver
\* returns a version strictly greater than its input, with pre, dev and post
\* all absent.  (SpecBump)
C1_ReleaseBumpGreaterAndFinal ==
    (at = "bumped" /\ in_level \in {"major", "minor", "patch"}) =>
        /\ ret.err = "none"
        /\ VersionLess(in_ver, ret.ver)
        /\ NoQualifiers(ret.ver)

\* C2: on a version with release (major, minor, patch), the major, minor and
\* patch bumps increment exactly their component by 1, reset the lower
\* components to 0 and keep the higher ones.  (SpecBump)
C2_ReleaseComponents ==
    (at = "bumped" /\ in_level \in {"major", "minor", "patch"}
       /\ Len(in_ver.release) = 3) =>
        LET k == PresentationRank(in_level)
        IN  /\ ret.err = "none"
            /\ Len(ret.ver.release) = 3
            /\ ret.ver.release[k] = in_ver.release[k] + 1
            /\ \A i \in 1..3 : i < k => ret.ver.release[i] = in_ver.release[i]
            /\ \A i \in 1..3 : i > k => ret.ver.release[i] = 0

C2_Witness ==
    /\ at = "bumped" /\ in_level = "minor"
    /\ in_ver.release = <<1, 1, 1>> /\ in_ver.post # None
    /\ ret.err = "none" /\ ret.ver.release = <<1, 2, 0>>

\* C3: a pre, dev or post bump of a version that carries that qualifier
\* increments its counter by 1, keeps its label, and leaves the release and
\* the other two qualifiers as they are.  (SpecBump)
C3_QualifierBump ==
    (at = "bumped" /\ in_level \in QualifierLevels
       /\ Qualifier(in_ver, in_level) # None) =>
        /\ ret.err = "none"
        /\ Qualifier(ret.ver, in_level) =
             <<Qualifier(in_ver, in_level)[1], Qualifier(in_ver, in_level)[2] + 1>>
        /\ ret.ver.release = in_ver.release
        /\ \A l \in QualifierLevels \ {in_level} :
             Qualifier(ret.ver, l) = Qualifier(in_ver, l)

C3_Witness ==
    /\ at = "bumped" /\ in_level = "pre"
    /\ in_ver.pre = <<"rc", 1>> /\ in_ver.dev # None /\ in_ver.post # None
    /\ ret.err = "none" /\ ret.ver.pre = <<"rc", 2>>

\* C4: whenever _bump_ver returns a version for one of the six levels, it is
\* strictly greater than the input.  (SpecBump)
C4_BumpStrictlyGreater ==
    (at = "bumped" /\ in_level \in VersionLevels /\ ret.err = "none") =>
        VersionLess(in_ver, ret.ver)

\* C5: the prompt offers pre, dev, post exactly when the version carries
\* that qualifier.  (SpecBump)
C5_QualifierOfferedIffCarried ==
    (at \in {"select", "prompted"} /\ shown # <<>>) =>
        \A l \in QualifierLevels : (l \in ShownLevels) <=> (Qualifier(in_ver, l) # None)

\* C6: a pre, dev or post bump of a version that lacks that qualifier fails
\* with UnsupportedQualifierBump.  (SpecBump)
C6_UnsupportedQualifierRaises ==
    (at = "bumped" /\ in_level \in QualifierLevels
       /\ Qualifier(in_ver, in_level) = None) =>
        ret.err = "UnsupportedQualifierBump"

\* C7: a bump with a level that is none of the six fails with
\* InvalidBumpLevel.  (SpecBump)
C7_InvalidLevelRaises ==
    (at = "bumped" /\ in_level \notin VersionLevels) => ret.err = "InvalidBumpLevel"

\* C8: when the selection prompt of a run without new_tag returns no choice,
\* the run has failed and has changed nothing: the tags, commits, version
\* file, changelog and headers are as the run found them, and nothing was
\* collected or staged.  (Spec)
C8_CancelBeforeMutation ==
    (prompted /\ shown # <<>> /\ pc # "select" /\ option_idx = None) =>
        /\ pc = "failed"
        /\ error = "AssertionError"
        /\ Repository = before
        /\ changed_files = {}
        /\ index = {}

C8_Witness ==
    /\ prompted /\ shown # <<>> /\ option_idx = None
    /\ pc = "failed" /\ error = "AssertionError"
    /\ runs = 2 /\ Len(before.commits) = 1 /\ Len(before.tags) = 2

\* C9: the prompt shows one label "<version> (<level>)" per option, in the
\* order major, minor, patch, pre, dev, post, each with the version that
\* _bump_ver gives for its level, and for the answer i prompt_bump_version
\* returns the version of the i-th label.  (SpecBump)
C9_PromptReturnsShownOption ==
    /\ at = "select" =>
        /\ Len(shown) >= 3
        /\ \A i \in 1..3 : LabelLevel(shown[i]) = PresentationOrder[i]
        /\ \A i \in DOMAIN shown :
             /\ LabelLevel(shown[i]) \in VersionLevels
             /\ shown[i] = VerStr(_bump_ver(in_ver, LabelLevel(shown[i])).ver)
                             \o <<Sym(" ("), Sym(LabelLevel(shown[i])), Sym(")")>>
        /\ \A i, j \in DOMAIN shown :
             i < j => PresentationRank(LabelLevel(shown[i]))
                        < PresentationRank(LabelLevel(shown[j]))
    /\ (at = "prompted" /\ option_idx # None) =>
        /\ option_idx[1] + 1 \in DOMAIN shown
        /\ ret.err = "none"
        /\ ret.ver = _bump_ver(in_ver, LabelLevel(shown[option_idx[1] + 1])).ver
        /\ VerStr(ret.ver) = LabelVersion(shown[option_idx[1] + 1])

C9_Witness ==
    /\ at = "prompted" /\ Len(shown) = 6 /\ option_idx = <<4>>
    /\ ret.err = "none" /\ ret.ver.dev = <<"dev", 2>> /\ in_ver.dev = <<"dev", 1>>

\* C10: a run on the prompted path that has made its commit releases a
\* version strictly greater than the version of the tag it started from, and
\* does not reach the tag creation with a name that exists.  (Spec)
C10_PromptedReleaseGreater ==
    (prompted /\ pc \in {"tag", "done"}) =>
        /\ VersionLess(old_ver, new_ver)
        /\ pc = "tag" => new_tag \notin Range(tags)

====
